---- MODULE Spec2Model ----
(***************************************************************************)
(* A model of web_fuzzer/webFuzz/mutator.py: the Mutator class, its        *)
(* per-parameter strategies, donor selection and cross-over.               *)
(*                                                                         *)
(* Python objects are modelled with identity.  Every list of values is an  *)
(* entry of `lists`, every parameter dict an entry of `dicts`, every Node  *)
(* an entry of `nodes`; a reference is the index of the entry.  Parameter  *)
(* names and values are sequences of one-character strings.                *)
(***************************************************************************)
EXTENDS Integers, Sequences, FiniteSets, TLC

VARIABLES
    nodes,       \* heap of Node objects
    dicts,       \* heap of parameter dicts: ordered sequences of [k, v]
    lists,       \* heap of value lists
    pc,          \* position inside the running call
    choice,      \* the branch mutate() took
    node_list,   \* the corpus handed to cross_over / select_favourable_node
    new_node,    \* reference of the node mutate() builds (0: none yet)
    param_type,  \* index into ParamTypes of the group being processed
    idx,         \* position in from_node.params[param_type].items()
    log,         \* what per_param_mutate logged: (group, key, param) per item
    fn,          \* strategy under test (strategy specification only)
    arg,         \* its input (param, val)
    ret          \* values returned so far

vars == <<nodes, dicts, lists, pc, choice, node_list, new_node, param_type,
          idx, log, fn, arg, ret>>

-----------------------------------------------------------------------------
(* Bounds of the model *)

MaxSize == 2
MaxCorpus == 2
MaxScan == 3
MaxCount == 2
MaxNameLen == 3
MaxVals == 2

-----------------------------------------------------------------------------
(* Program constants *)

FREQ_XSS_PAYLOAD == 30
FREQ_TYPE_ALTER == 10
FREQ_RAND_TEXT == 50
FREQ_SYNTAX_TOKEN == 10
FREQ_SKIP_PARAM == 10

HEADS == 1
TAILS == 2

\* random.randrange(RandLenFrom, RandLenStop): the stop value is excluded
RandLenFrom == 1
RandLenStop == 6

GET == "GET"
POST == "POST"

\* the order "for param_type in [HTTPMethod.GET, HTTPMethod.POST]"
ParamTypes == <<GET, POST>>

None == 0

-----------------------------------------------------------------------------
(* Strings *)

Str(n, alphabet) == UNION {[1..k -> alphabet] : k \in 0..n}

\* math.ceil(n / 2) for a natural n
CeilHalf(n) == (n + 1) \div 2

-----------------------------------------------------------------------------
(* Python dict, insertion ordered: a sequence of [k |-> name, v |-> value] *)

Keys(d) == {d[i].k : i \in DOMAIN d}

Has(d, k) == k \in Keys(d)

DictGet(d, k) == d[CHOOSE i \in DOMAIN d : d[i].k = k].v

\* del d[k], for a key that is present
DictDelKeep(d, k) == d

DictDel(d, k) == SelectSeq(d, LAMBDA e : e.k # k)

\* d[k] = v: overwrite in place, or append a new key
DictSet(d, k, v) ==
    IF Has(d, k)
    THEN [i \in DOMAIN d |-> IF d[i].k = k THEN [k |-> k, v |-> v] ELSE d[i]]
    ELSE Append(d, [k |-> k, v |-> v])

\* d.update(other)
RECURSIVE DictUpdate(_, _)
DictUpdate(d, other) ==
    IF other = <<>> THEN d
    ELSE DictUpdate(DictSet(d, Head(other).k, Head(other).v), Tail(other))

-----------------------------------------------------------------------------
(* The heap.  A memory m is [nodes, dicts, lists]. *)

Mem == [nodes |-> nodes, dicts |-> dicts, lists |-> lists]

EmptyMem == [nodes |-> <<>>, dicts |-> <<>>, lists |-> <<>>]

\* a new dict holding new lists: items is a sequence of [k, val]
AllocDict(m, items) ==
    LET base == Len(m.lists)
        d == [i \in DOMAIN items |-> [k |-> items[i].k, v |-> base + i]]
    IN [m |-> [m EXCEPT !.lists = @ \o [i \in DOMAIN items |-> items[i].val],
                        !.dicts = Append(@, d)],
        ref |-> Len(m.dicts) + 1]

\* the group dict of a node
GroupRef(m, n, pt) == m.nodes[n].params[pt]

Group(m, n, pt) == m.dicts[GroupRef(m, n, pt)]

\* the group as a sequence of [k, val]: names with their values, no references
GroupItems(m, n, pt) ==
    LET d == Group(m, n, pt)
    IN [i \in DOMAIN d |-> [k |-> d[i].k, val |-> m.lists[d[i].v]]]

\* the group as a mapping from name to values (dict equality ignores order)
GroupMap(m, n, pt) ==
    LET d == Group(m, n, pt)
    IN [k \in Keys(d) |-> m.lists[DictGet(d, k)]]

\* the list objects a node's params hold
ListRefs(m, n) ==
    UNION {{Group(m, n, pt)[i].v : i \in DOMAIN Group(m, n, pt)} : pt \in {GET, POST}}

\* copy.deepcopy of a parameter dict: a new dict holding new lists (no two
\* entries of the dicts copied here hold the same list, so deepcopy's memo of
\* shared objects plays no part)
AliasDict(m, dref) == [m |-> m, ref |-> dref]

EmptyDict(m, dref) == AllocDict(m, <<>>)

DeepCopyDict(m, dref) ==
    LET d == m.dicts[dref]
    IN AllocDict(m, [i \in DOMAIN d |-> [k |-> d[i].k, val |-> m.lists[d[i].v]]])

\* Node(url, method, parent_request): a new node with two empty groups
NodeNew(m, url, method, parent) ==
    LET a == AllocDict(m, <<>>)
        b == AllocDict(a.m, <<>>)
    IN [m |-> [b.m EXCEPT !.nodes = Append(@,
                   [url |-> url, method |-> method,
                    params |-> [GET |-> a.ref, POST |-> b.ref],
                    size |-> 0, parent |-> parent])],
        ref |-> Len(m.nodes) + 1]

\* Node.calculate_param_size: the parameter count over both groups
CalculateParamSize(m, n) == Len(Group(m, n, GET)) + Len(Group(m, n, POST))

\* "new_node.calculate_param_size()" at the end of mutate
RefreshSkipped(m, n) == m

Refresh(m, n) == [m EXCEPT !.nodes[n].size = CalculateParamSize(m, n)]

-----------------------------------------------------------------------------
(* Payloads and the registry of per-parameter mutators *)

\* the payload files are not part of the sources: each Kind holds stand-ins
\* (read_tokens keeps only the non-empty lines of a file)
xss_payloads ==
    << [weight |-> 30, payloads |-> << <<"<", "x", ">">> >>],
       [weight |-> 50, payloads |-> << <<"'", ">">> >>],
       [weight |-> 20, payloads |-> << <<"<", "x">> >>] >>

syntax_tokens ==
    << [weight |-> 30, payloads |-> << <<"<">> >>],
       [weight |-> 30, payloads |-> << <<"?", ">">> >>],
       [weight |-> 40, payloads |-> << <<";">> >>] >>

\* Payloads.payload: a Kind drawn by weight, then one of its payloads
Payload(kinds) ==
    UNION {{kinds[i].payloads[j] : j \in DOMAIN kinds[i].payloads} :
              i \in {x \in DOMAIN kinds : kinds[x].weight > 0}}

per_param_mutators ==
    << [id |-> 1, weight |-> FREQ_XSS_PAYLOAD, func |-> "add_xss_payload"],
       [id |-> 2, weight |-> FREQ_TYPE_ALTER, func |-> "alter_type"],
       [id |-> 3, weight |-> FREQ_RAND_TEXT, func |-> "add_random_text"],
       [id |-> 4, weight |-> FREQ_SYNTAX_TOKEN, func |-> "add_syntax_token"],
       [id |-> 5, weight |-> FREQ_SKIP_PARAM, func |-> "skip_param"] >>

\* MutateFunctions.mutator: random.choices by weight
mutator ==
    {per_param_mutators[i].func :
        i \in {x \in DOMAIN per_param_mutators : per_param_mutators[x].weight > 0}}

-----------------------------------------------------------------------------
(* The per-parameter strategies, on (param, val) *)

skip_param(param, val) == <<param, val>>

\* re: the span [i, j] of the leftmost match of \[[^\[]*\]$ in param, if any.
\* "$" matches at the end of the string and also just before a newline that
\* ends the string; [^\[] matches every character but "[".
EndAnchor(param, j) ==
    \/ j = Len(param)
    \/ j = Len(param) - 1 /\ param[Len(param)] = "\n"

MatchesAt(param, i, j) ==
    /\ i < j
    /\ param[i] = "["
    /\ param[j] = "]"
    /\ \A x \in (i + 1)..(j - 1) : param[x] # "["
    /\ EndAnchor(param, j)

Matches(param) ==
    {<<i, j>> \in (DOMAIN param) \X (DOMAIN param) : MatchesAt(param, i, j)}

\* the match the regex engine reports: leftmost start, then greedy
FirstMatch(param) ==
    CHOOSE s \in Matches(param) :
        \A t \in Matches(param) : s[1] < t[1] \/ (s[1] = t[1] /\ s[2] >= t[2])

alter_type(param, val) ==
    IF Matches(param) # {}
    THEN LET s == FirstMatch(param)
         IN <<SubSeq(param, 1, s[1] - 1) \o SubSeq(param, s[2] + 1, Len(param)), val>>
    ELSE <<param \o <<"[", "]">>, val>>

\* string.ascii_lowercase + string.punctuation + string.digits, cut down
RandomAlphabet == {"z"}

\* random_string(random.randrange(1, 6))
random_string ==
    {s \in Str(RandLenStop - 1, RandomAlphabet) : Len(s) >= RandLenFrom}

\* the two placements of a payload
Prefix(payload, val) == [i \in DOMAIN val |-> payload \o val[i]]

Suffix(payload, val) == [i \in DOMAIN val |-> val[i] \o payload]

\* a placement that is not the same for every value
MixedPlace(coin, payload, val) ==
    [i \in DOMAIN val |-> IF i = 1 THEN payload \o val[i] ELSE val[i] \o payload]

\* "if random.randint(HEADS, TAILS) == HEADS": payload + x, else x + payload
Place(coin, payload, val) ==
    IF coin = HEADS THEN Prefix(payload, val) ELSE Suffix(payload, val)

\* random.randint(HEADS, TAILS)
Coin == HEADS..TAILS

add_random_text(param, val, payload, coin) == <<param, Place(coin, payload, val)>>

add_syntax_token(param, val, payload, coin) == <<param, Place(coin, payload, val)>>

add_xss_payload(param, val, payload, coin) == <<param, Place(coin, payload, val)>>

-----------------------------------------------------------------------------
(* Donor selection and cross-over *)

\* the test that ends the scan
StrongOrEqual(len_params_node, len_cross, node_url, start_url) ==
    len_params_node >= len_cross /\ node_url # start_url

Strong(len_params_node, len_cross, node_url, start_url) ==
    len_params_node > len_cross /\ node_url # start_url

\* the loop "for node in node_list" from position i on, cross_node in hand
RECURSIVE Scan(_, _, _, _, _, _)
Scan(m, nl, i, cross_node, start_node, cross_type) ==
    IF i > Len(nl) THEN cross_node
    ELSE LET node == nl[i]
             len_params_self == Len(Group(m, start_node, cross_type))
             len_params_node == Len(Group(m, node, cross_type))
         IN IF Strong(len_params_node, Len(Group(m, cross_node, cross_type)),
                      m.nodes[node].url, m.nodes[start_node].url)
            THEN node
            ELSE IF len_params_node >= CeilHalf(len_params_self)
            THEN Scan(m, nl, i + 1, node, start_node, cross_type)
            ELSE Scan(m, nl, i + 1, cross_node, start_node, cross_type)

select_favourable_node(m, nl, start_node, cross_type) ==
    IF Len(nl) = 0 THEN None
    ELSE Scan(m, nl, 1, nl[1], start_node, cross_type)

\* new_node.params[cross_type].update(cross_node.params[cross_type])
MergeKeepOwn(m, new, cross_node, cross_type) ==
    LET own == Group(m, new, cross_type)
        other == SelectSeq(Group(m, cross_node, cross_type),
                           LAMBDA e : ~Has(own, e.k))
    IN [m EXCEPT !.dicts[GroupRef(m, new, cross_type)] = own \o other]

merge_nodes(m, new, cross_node, cross_type) ==
    [m EXCEPT !.dicts[GroupRef(m, new, cross_type)] =
                  DictUpdate(@, Group(m, cross_node, cross_type))]

\* "GET requests should not have post parameters"
NeverSkip(method, pt) == FALSE

SkipGroup(method, pt) == method = GET /\ pt = POST

\* one round of the loop of cross_over
CrossGroup(m, nl, new, pt) ==
    IF SkipGroup(m.nodes[new].method, pt) THEN m
    ELSE LET cross_node == select_favourable_node(m, nl, new, pt)
         IN IF cross_node = None THEN m
            ELSE merge_nodes(m, new, cross_node, pt)

\* new_node.params = copy.deepcopy(from_node.params)
DeepCopyParams(m, from, new) ==
    LET a == DeepCopyDict(m, GroupRef(m, from, GET))
        b == DeepCopyDict(a.m, GroupRef(a.m, from, POST))
    IN [b.m EXCEPT !.nodes[new].params = [GET |-> a.ref, POST |-> b.ref]]

cross_over(m, from, nl, new) ==
    CrossGroup(CrossGroup(DeepCopyParams(m, from, new), nl, new, GET), nl, new, POST)

-----------------------------------------------------------------------------
(* Building the nodes that exist before a call *)

\* a node from its shape [url, method, get, post], groups given as items
AllocNode(m, shape) ==
    LET a == AllocDict(m, shape.get)
        b == AllocDict(a.m, shape.post)
    IN [b.m EXCEPT !.nodes = Append(@,
            [url |-> shape.url, method |-> shape.method,
             params |-> [GET |-> a.ref, POST |-> b.ref],
             size |-> Len(shape.get) + Len(shape.post), parent |-> None])]

RECURSIVE BuildHeap(_, _)
BuildHeap(m, shapes) ==
    IF shapes = <<>> THEN m
    ELSE BuildHeap(AllocNode(m, Head(shapes)), Tail(shapes))

Urls == {"/a", "/x"}

Methods == {GET, POST}

P == <<"p">>

PArr == <<"p", "[", "]">>

ParamNames == {P, PArr}

\* ordered groups of at most n distinct names
Groups(names, n) ==
    {g \in Str(n, names) : \A i, j \in DOMAIN g : g[i] = g[j] => i = j}

SourceVal(name) == IF name = P THEN << <<"1">> >> ELSE << <<"1">>, <<"2">> >>

SourceItems(g) == [i \in DOMAIN g |-> [k |-> g[i], val |-> SourceVal(g[i])]]

\* the source nodes tried: either method, at most MaxSize parameters in all
SourceShapes ==
    {[url |-> u, method |-> me, get |-> SourceItems(gq[1]),
      post |-> SourceItems(gq[2])] :
        u \in Urls, me \in Methods,
        gq \in {x \in Groups(ParamNames, MaxSize) \X Groups(ParamNames, MaxSize) :
                   Len(x[1]) + Len(x[2]) <= MaxSize}}

\* three nodes seen earlier, besides the source
NodeA ==
    [url |-> "/x", method |-> POST,
     get |-> << [k |-> P, val |-> << <<"a">> >>],
                [k |-> PArr, val |-> << <<"a">>, <<"b">> >>] >>,
     post |-> << [k |-> P, val |-> << <<"a">> >>] >>]

NodeB ==
    [url |-> "/a", method |-> GET,
     get |-> << [k |-> PArr, val |-> << <<"b">> >>] >>,
     post |-> << [k |-> PArr, val |-> << <<"b">> >>],
                 [k |-> P, val |-> << <<"c">> >>] >>]

NodeC ==
    [url |-> "/x", method |-> GET,
     get |-> <<>>,
     post |-> << [k |-> PArr, val |-> << <<"c">> >>] >>]

\* the source node of the call; the nodes that exist before it
from_node == 1

Existing == 1..4

Corpora == Str(MaxCorpus, Existing)

-----------------------------------------------------------------------------
(* Mutator.mutate and Mutator.per_param_mutate *)

Init ==
    /\ \E shape \in SourceShapes :
          LET m == BuildHeap(EmptyMem, <<shape, NodeA, NodeB, NodeC>>)
          IN nodes = m.nodes /\ dicts = m.dicts /\ lists = m.lists
    /\ pc = "start"
    /\ choice = "none"
    /\ node_list = <<>>
    /\ new_node = None
    /\ param_type = 0
    /\ idx = 0
    /\ log = <<>>
    /\ fn = "none"
    /\ arg = <<>>
    /\ ret = <<>>

\* the head of "for param_type in [GET, POST]": copy the group, then walk the
\* source's items; past the last group mutate refreshes the size and returns
RECURSIVE EnterGroup(_, _, _, _)
EnterGroup(m, from, new, g) ==
    IF g > Len(ParamTypes)
    THEN [m |-> Refresh(m, new), pc |-> "done", param_type |-> g, idx |-> 0]
    ELSE LET c == DeepCopyDict(m, GroupRef(m, from, ParamTypes[g]))
             m1 == [c.m EXCEPT !.nodes[new].params[ParamTypes[g]] = c.ref]
         IN IF Len(Group(m1, from, ParamTypes[g])) = 0
            THEN EnterGroup(m1, from, new, g + 1)
            ELSE [m |-> m1, pc |-> "per_param", param_type |-> g, idx |-> 1]

\* what self.per_param_mutators.mutator(key, value) can return: the name, the
\* list object returned and the heap holding it
ApplyMutator(m, f, key, value) ==
    LET fresh(r) == [param |-> r[1], val |-> Len(m.lists) + 1,
                     m |-> [m EXCEPT !.lists = Append(@, r[2])]]
        same(r) == [param |-> r[1], val |-> r[2], m |-> m]
    IN CASE f = "skip_param" -> {same(skip_param(key, value))}
         [] f = "alter_type" -> {same(alter_type(key, value))}
         [] f = "add_random_text" ->
               {fresh(add_random_text(key, m.lists[value], t, c)) :
                    t \in random_string, c \in Coin}
         [] f = "add_syntax_token" ->
               {fresh(add_syntax_token(key, m.lists[value], t, c)) :
                    t \in Payload(syntax_tokens), c \in Coin}
         [] f = "add_xss_payload" ->
               {fresh(add_xss_payload(key, m.lists[value], t, c)) :
                    t \in Payload(xss_payloads), c \in Coin}

Frame(fr) ==
    /\ nodes' = fr.m.nodes
    /\ dicts' = fr.m.dicts
    /\ lists' = fr.m.lists
    /\ pc' = fr.pc
    /\ param_type' = fr.param_type
    /\ idx' = fr.idx

\* mutate, from_node.size == 0: cross_over, refresh, return
MutateNoParams ==
    /\ pc = "start"
    /\ nodes[from_node].size = 0
    /\ \E nl \in Corpora :
          LET n == NodeNew(Mem, nodes[from_node].url, nodes[from_node].method,
                           from_node)
              m == Refresh(cross_over(n.m, from_node, nl, n.ref), n.ref)
          IN /\ Frame([m |-> m, pc |-> "done", param_type |-> 0, idx |-> 0])
             /\ new_node' = n.ref
             /\ node_list' = nl
    /\ choice' = "cross_over"
    /\ UNCHANGED <<log, fn, arg, ret>>

\* mutate, choice = all_param_mutate: cross_over, refresh, return
MutateAllParam ==
    /\ pc = "start"
    /\ nodes[from_node].size # 0
    /\ \E nl \in Corpora :
          LET n == NodeNew(Mem, nodes[from_node].url, nodes[from_node].method,
                           from_node)
              m == Refresh(cross_over(n.m, from_node, nl, n.ref), n.ref)
          IN /\ Frame([m |-> m, pc |-> "done", param_type |-> 0, idx |-> 0])
             /\ new_node' = n.ref
             /\ node_list' = nl
    /\ choice' = "all_param_mutate"
    /\ UNCHANGED <<log, fn, arg, ret>>

\* mutate, choice = per_param_mutate: up to the first item of the loop
MutatePerParam ==
    /\ pc = "start"
    /\ nodes[from_node].size # 0
    /\ LET n == NodeNew(Mem, nodes[from_node].url, nodes[from_node].method,
                        from_node)
       IN /\ Frame(EnterGroup(n.m, from_node, n.ref, 1))
          /\ new_node' = n.ref
    /\ choice' = "per_param_mutate"
    /\ UNCHANGED <<node_list, log, fn, arg, ret>>

\* one item of "for key, value in from_node.params[param_type].items()";
\* after the last item of the last group mutate refreshes the size and returns
PerParamItem ==
    /\ pc = "per_param"
    /\ idx \in DOMAIN Group(Mem, from_node, ParamTypes[param_type])
    /\ LET pt == ParamTypes[param_type]
           key == Group(Mem, from_node, pt)[idx].k
           value == Group(Mem, from_node, pt)[idx].v
       IN \E f \in mutator : \E o \in ApplyMutator(Mem, f, key, value) :
            IF o.param # key /\ ~Has(Group(o.m, new_node, pt), key)
            THEN /\ pc' = "KeyError"
                 /\ UNCHANGED <<nodes, dicts, lists, param_type, idx, log>>
            ELSE LET d0 == Group(o.m, new_node, pt)
                     d1 == IF o.param # key THEN DictDel(d0, key) ELSE d0
                     d2 == DictSet(d1, o.param, o.val)
                     m1 == [o.m EXCEPT !.dicts[GroupRef(o.m, new_node, pt)] = d2]
                 IN /\ Frame(IF idx + 1 > Len(Group(m1, from_node, pt))
                             THEN EnterGroup(m1, from_node, new_node, param_type + 1)
                             ELSE [m |-> m1, pc |-> "per_param",
                                   param_type |-> param_type, idx |-> idx + 1])
                    /\ log' = Append(log, [group |-> pt, key |-> key,
                                           param |-> o.param])
    /\ UNCHANGED <<choice, node_list, new_node, fn, arg, ret>>

Next == MutateNoParams \/ MutateAllParam \/ MutatePerParam \/ PerParamItem

Spec == Init /\ [][Next]_vars

-----------------------------------------------------------------------------
(* Properties of mutate *)

MemNext == [nodes |-> nodes', dicts |-> dicts', lists |-> lists']

Returned == pc = "done"

CrossOverTaken == Returned /\ choice \in {"cross_over", "all_param_mutate"}

PerParamTaken == Returned /\ choice = "per_param_mutate"

\* the items of a node's params: both groups, names in order, with values
ParamsOf(m, n) == [pt \in {GET, POST} |-> GroupItems(m, n, pt)]

\* C1: no step of mutate, on either path, changes the url, method or params
\* of the source node, or the params of any node that can be in the corpus;
\* steps write the new node only.
C1_SourceAndCorpusUntouched ==
    [][/\ nodes'[from_node].url = nodes[from_node].url
       /\ nodes'[from_node].method = nodes[from_node].method
       /\ \A n \in Existing :
            /\ nodes'[n].params = nodes[n].params
            /\ ParamsOf(MemNext, n) = ParamsOf(Mem, n)]_vars

\* C1 witness: a cross-over against a corpus holding the source node itself
\* returned a node whose params differ from the source's.
C1_Witness ==
    /\ CrossOverTaken
    /\ \E i \in DOMAIN node_list : node_list[i] = from_node
    /\ ParamsOf(Mem, new_node) # ParamsOf(Mem, from_node)

\* C2: after cross_over into a GET node, the node's POST group equals the
\* source's POST group, whatever the corpus holds.
C2_GetKeepsPostGroup ==
    (CrossOverTaken /\ nodes[new_node].method = GET)
        => GroupMap(Mem, new_node, POST) = GroupMap(Mem, from_node, POST)

\* C2 witness: a GET node with POST parameters was crossed with a corpus whose
\* nodes carry POST parameters under names the source does not have.
C2_Witness ==
    /\ CrossOverTaken
    /\ nodes[new_node].method = GET
    /\ Group(Mem, from_node, POST) # <<>>
    /\ \E i \in DOMAIN node_list :
          Keys(Group(Mem, node_list[i], POST)) \ Keys(Group(Mem, from_node, POST)) # {}

\* C3: per group, cross_over leaves the source's group when the corpus is
\* empty or the group is skipped; otherwise the donor's names carry the
\* donor's values, the source's other names carry the source's values, and
\* there are no other names.
C3_CrossOverResult ==
    CrossOverTaken =>
        \A pt \in {GET, POST} :
            LET d == select_favourable_node(Mem, node_list, from_node, pt)
                src == GroupMap(Mem, from_node, pt)
                out == GroupMap(Mem, new_node, pt)
            IN IF node_list = <<>> \/ (nodes[new_node].method = GET /\ pt = POST)
               THEN out = src
               ELSE LET don == GroupMap(Mem, d, pt)
                    IN /\ \A k \in DOMAIN don : k \in DOMAIN out /\ out[k] = don[k]
                       /\ \A k \in (DOMAIN src) \ (DOMAIN don) :
                             k \in DOMAIN out /\ out[k] = src[k]
                       /\ DOMAIN out = (DOMAIN don) \cup (DOMAIN src)

\* C3 witness: a donor overwrote one of the source's names with other values
\* and left another of the source's names alone.
C3_Witness ==
    /\ CrossOverTaken
    /\ node_list # <<>>
    /\ LET d == select_favourable_node(Mem, node_list, from_node, GET)
           src == GroupMap(Mem, from_node, GET)
           don == GroupMap(Mem, d, GET)
       IN /\ \E k \in (DOMAIN src) \cap (DOMAIN don) : src[k] # don[k]
          /\ (DOMAIN src) \ (DOMAIN don) # {}

\* C4: the node mutate returns has size equal to the number of names in its
\* final GET group plus the number in its final POST group.
C4_SizeIsFinalCount ==
    Returned =>
        nodes[new_node].size = Cardinality(Keys(Group(Mem, new_node, GET)))
                               + Cardinality(Keys(Group(Mem, new_node, POST)))

\* C4 witness: a per-parameter mutation returned a node with fewer parameters
\* than its source (two names collided after a rename).
C4_Witness ==
    /\ PerParamTaken
    /\ nodes[new_node].size < nodes[from_node].size

\* C6 as claimed: once the group is processed, no parameter whose strategy
\* returned another name still has its original name among the group's keys.
C6_RenamedKeyGone ==
    PerParamTaken =>
        \A i \in DOMAIN log :
            log[i].param # log[i].key
                => log[i].key \notin Keys(Group(Mem, new_node, log[i].group))

\* C6 amended: the original name of a renamed parameter is a key of the
\* group afterwards only if a parameter of the group processed later was
\* given that name.
C6_RenamedKeyGoneUnlessReused ==
    PerParamTaken =>
        \A i \in DOMAIN log :
            (/\ log[i].param # log[i].key
             /\ log[i].key \in Keys(Group(Mem, new_node, log[i].group)))
                => \E j \in DOMAIN log :
                      /\ j > i
                      /\ log[j].group = log[i].group
                      /\ log[j].param = log[i].key

\* C6 witness: in a group of two parameters one was renamed, and its original
\* name is gone from the new node's group.
C6_Witness ==
    /\ PerParamTaken
    /\ \E i \in DOMAIN log :
          /\ log[i].param # log[i].key
          /\ Len(Group(Mem, from_node, log[i].group)) = 2
          /\ log[i].key \notin Keys(Group(Mem, new_node, log[i].group))

\* the source's items in the order per_param_mutate visits them
SourceItemsInOrder ==
    [i \in DOMAIN Group(Mem, from_node, GET) |->
        <<GET, Group(Mem, from_node, GET)[i].k>>]
    \o [i \in DOMAIN Group(Mem, from_node, POST) |->
        <<POST, Group(Mem, from_node, POST)[i].k>>]

\* C9: the deletion of the old key never misses, and a returned
\* per-parameter mutation has processed every source parameter exactly once.
C9_PerParamTotal ==
    /\ pc # "KeyError"
    /\ PerParamTaken
          => [i \in DOMAIN log |-> <<log[i].group, log[i].key>>] = SourceItemsInOrder

\* C9 witness: a parameter was renamed after an earlier rename in its group
\* had taken over its name.
C9_Witness ==
    /\ PerParamTaken
    /\ \E i, j \in DOMAIN log :
          /\ i < j
          /\ log[i].group = log[j].group
          /\ log[i].param # log[i].key
          /\ log[i].param = log[j].key
          /\ log[j].param # log[j].key

\* C10 as claimed: the returned node shares no value list with the source
\* node or with a node of the corpus.
C10_StorageIndependent ==
    Returned =>
        \A n \in Existing : ListRefs(Mem, new_node) \cap ListRefs(Mem, n) = {}

-----------------------------------------------------------------------------
(* Mutator.select_favourable_node on its own *)

\* i distinct parameters, each with one value
CountItems(i) ==
    [j \in 1..i |-> [k |-> [x \in 1..j |-> "p"], val |-> << <<"1">> >>]]

\* a node with c parameters in group ct and the rest of MaxCount in the other
ScanShape(url, c, ct) ==
    [url |-> url, method |-> GET,
     get |-> CountItems(IF ParamTypes[ct] = GET THEN c ELSE MaxCount - c),
     post |-> CountItems(IF ParamTypes[ct] = POST THEN c ELSE MaxCount - c)]

InitSelect ==
    /\ \E ct \in DOMAIN ParamTypes, c \in 0..MaxCount,
          corp \in Str(MaxScan, Urls \X (0..MaxCount)) :
          LET m == BuildHeap(EmptyMem,
                       <<ScanShape("/a", c, ct)>> \o
                       [i \in DOMAIN corp |-> ScanShape(corp[i][1], corp[i][2], ct)])
          IN /\ nodes = m.nodes /\ dicts = m.dicts /\ lists = m.lists
             /\ node_list = [i \in DOMAIN corp |-> i + 1]
             /\ param_type = ct
    /\ pc = "select"
    /\ choice = "none"
    /\ new_node = None
    /\ idx = 0
    /\ log = <<>>
    /\ fn = "select_favourable_node"
    /\ arg = <<>>
    /\ ret = <<>>

SelectCall ==
    /\ pc = "select"
    /\ ret' = <<select_favourable_node(Mem, node_list, from_node,
                                       ParamTypes[param_type])>>
    /\ pc' = "selected"
    /\ UNCHANGED <<nodes, dicts, lists, choice, node_list, new_node, param_type,
                   idx, log, fn, arg>>

NextSelect == SelectCall

SpecSelect == InitSelect /\ [][NextSelect]_vars

\* the parameter count of the i-th candidate in the group crossed
CountAt(i) == Len(Group(Mem, node_list[i], ParamTypes[param_type]))

SelfCount == Len(Group(Mem, from_node, ParamTypes[param_type]))

\* the position of the donor in hand when candidate i is reached, provided
\* the scan got that far: the last earlier candidate with at least
\* ceil(selfCount / 2) parameters, or the first element
HeldAt(i) ==
    LET W == {j \in 1..(i - 1) : 2 * CountAt(j) >= SelfCount}
    IN IF W = {} THEN 1 ELSE CHOOSE j \in W : \A x \in W : x <= j

StrongAt(i) ==
    /\ CountAt(i) > CountAt(HeldAt(i))
    /\ nodes[node_list[i]].url # nodes[from_node].url

\* C5: select_favourable_node returns none exactly for an empty corpus;
\* otherwise the first candidate that beats the donor in hand and has another
\* url, or, when there is none, the last candidate with at least
\* ceil(selfCount / 2) parameters, or the first element.
C5_SelectFavourable ==
    pc = "selected" =>
        LET S == {i \in DOMAIN node_list : StrongAt(i)}
        IN /\ ret[1] = None <=> node_list = <<>>
           /\ node_list # <<>> =>
                ret[1] = IF S # {}
                         THEN node_list[CHOOSE i \in S : \A x \in S : i <= x]
                         ELSE node_list[HeldAt(Len(node_list) + 1)]

\* C5 witness: the second of three candidates won and ended the scan, though
\* the third has enough parameters to have replaced it.
C5_Witness ==
    /\ pc = "selected"
    /\ Len(node_list) = 3
    /\ ret[1] = node_list[2]
    /\ StrongAt(2)
    /\ 2 * CountAt(3) >= SelfCount
    /\ ~StrongAt(3)

-----------------------------------------------------------------------------
(* The strategies on their own *)

NameAlphabet == {"p", "[", "]", "\n"}

ValueStrings == {<<>>, <<"1">>}

InitStrategy ==
    /\ fn \in mutator
    /\ arg \in Str(MaxNameLen, NameAlphabet) \X Str(MaxVals, ValueStrings)
    /\ ret = <<>>
    /\ pc = "call"
    /\ nodes = <<>>
    /\ dicts = <<>>
    /\ lists = <<>>
    /\ choice = "none"
    /\ node_list = <<>>
    /\ new_node = None
    /\ param_type = 0
    /\ idx = 0
    /\ log = <<>>

Rest == <<nodes, dicts, lists, pc, choice, node_list, new_node, param_type,
          idx, log, fn, arg>>

CallSkipParam ==
    /\ fn = "skip_param"
    /\ ret = <<>>
    /\ ret' = <<skip_param(arg[1], arg[2])>>
    /\ UNCHANGED Rest

\* alter_type, and then alter_type on what it returned
CallAlterType ==
    /\ fn = "alter_type"
    /\ Len(ret) < 2
    /\ LET in == IF ret = <<>> THEN arg ELSE ret[Len(ret)]
       IN ret' = Append(ret, alter_type(in[1], in[2]))
    /\ UNCHANGED Rest

CallAddRandomText ==
    /\ fn = "add_random_text"
    /\ ret = <<>>
    /\ \E t \in random_string, c \in Coin :
          ret' = <<add_random_text(arg[1], arg[2], t, c)>>
    /\ UNCHANGED Rest

CallAddSyntaxToken ==
    /\ fn = "add_syntax_token"
    /\ ret = <<>>
    /\ \E t \in Payload(syntax_tokens), c \in Coin :
          ret' = <<add_syntax_token(arg[1], arg[2], t, c)>>
    /\ UNCHANGED Rest

CallAddXssPayload ==
    /\ fn = "add_xss_payload"
    /\ ret = <<>>
    /\ \E t \in Payload(xss_payloads), c \in Coin :
          ret' = <<add_xss_payload(arg[1], arg[2], t, c)>>
    /\ UNCHANGED Rest

NextStrategy ==
    \/ CallSkipParam
    \/ CallAlterType
    \/ CallAddRandomText
    \/ CallAddSyntaxToken
    \/ CallAddXssPayload

SpecStrategy == InitStrategy /\ [][NextStrategy]_vars

\* a name that ends, at its very end, in a bracket group: "[", then
\* characters other than "[", then "]"
EndsInBracketGroup(name) ==
    \E i \in DOMAIN name :
        /\ i < Len(name)
        /\ name[i] = "["
        /\ name[Len(name)] = "]"
        /\ \A x \in (i + 1)..(Len(name) - 1) : name[x] # "["

\* C7 as claimed: for a name that does not end in a bracket group, the first
\* alter_type returns the name followed by "[]" and the second returns the
\* name; both return the values unchanged.
C7_AlterTypeTwice ==
    (fn = "alter_type" /\ Len(ret) = 2 /\ ~EndsInBracketGroup(arg[1]))
        => /\ ret[1] = <<arg[1] \o <<"[", "]">>, arg[2]>>
           /\ ret[2] = arg

\* the strings a string starts or ends with
Affixes(s) ==
    {SubSeq(s, 1, n) : n \in 0..Len(s)} \cup {SubSeq(s, n, Len(s)) : n \in 1..(Len(s) + 1)}

====
